---------------------------- MODULE Spec2Model ----------------------------
(***************************************************************************)
(* Model of the MyPetParlor assistant: the chat turn handler of            *)
(* src/apps/chainlit/app.py (on_message, echo detection, schedule payload  *)
(* parsing), the agent cache of src/agents/factory.py, the chat sessions   *)
(* (start, main, end), the agents built for a chat and their plugins       *)
(* (app.py and src/apps/chainlit/custom_agents), the routing of the triage *)
(* agent, and the frontend with the backend behind it.                     *)
(*                                                                         *)
(* Texts are TLA+ strings handled character by character (Len, SubSeq and  *)
(* \o work on strings in TLC), so that normalisation, regular-expression   *)
(* prefixes, JSON serialisation and JSON parsing are computed, not assumed.*)
(***************************************************************************)
EXTENDS Integers, Sequences, FiniteSets, TLC

VARIABLES
    \* ---- is_echo_of_question applied to one (response, question) pair
    echoResponse, echoQuestion, echoResult,
    \* ---- one turn of on_message (src/apps/chainlit/app.py:595-688)
    pc,         \* where the handler is: idle, get_response, stream, except, done
    utterance,  \* message.content
    session,    \* cl.user_session: triage_agent, thread, auth_settings
    thinking,   \* the "Analyzing your request" message: none, shown, removed
    stream,     \* the chunks invoke_stream has yielded so far in this turn
    answer,     \* answer.content, the free text accumulated by stream_token
    answerIdx,  \* the indices (in stream) of the chunks accumulated in answer
    sent,       \* the messages sent to the user in this turn, in order
    runs,       \* how often this turn has run the agent on the thread
    exc,        \* the exception in flight: None or Some(<<type, str(e)>>)
    path,       \* how the turn ended: none, missing, empty, raised, stream_end
    \* ---- AgentFactory (src/agents/factory.py) used by the backend's requests
    env,          \* which environment variables are set
    agents,       \* AgentFactory._agents: agent type -> agent object id
    objects,      \* the agent objects constructed: id -> its fields
    calls,        \* the get_agent calls: their type, position and result
    remoteCalls,  \* agent type -> number of remote create_agent calls made
    overlapped,   \* whether two get_agent calls have been in flight together
    \* ---- the plugin invocations of one triage turn (custom_agents/triage)
    routePc,      \* idle, routing (inside get_response), answered
    routeQuery,   \* what the user's query is about
    invoked,      \* the plugin invocations the triage agent's model has made
    \* ---- chat sessions: start, main, end (src/apps/chainlit/app.py)
    chats,        \* chat -> none, open, closed (Chainlit's view of the chat)
    user_session, \* chat -> the client and thread that start stored
    clients,      \* the clients created and not closed
    threads,      \* the thread objects created and not released
    turns,        \* the calls of main, in the order of their arrival
    endLog,       \* chat -> what end logged
    \* ---- one session of the frontend (src/apps/frontend/app.py) and the
    \* ---- backend behind it (src/apps/backend/main.py)
    fe_session,   \* the frontend's cl.user_session: agent_type, thread_id, agent_id
    requests,     \* the messages posted to /chat and what became of them
    created,      \* how many threads the backend's agents have created
    \* ---- the agents built for a chat (app.py start, custom_agents)
    builder,      \* which code builds: app (start) or clients (custom_agents)
    missing,      \* the APIs whose swagger.json does not exist
    buildPc,      \* start, setup_guide, read_api, triage, done, failed
    plugins,      \* agent built -> the list of its plugin agents
    read_api_result    \* what ReadAPIClient.initialize returned

echoVars == <<echoResponse, echoQuestion, echoResult>>
turnVars == <<pc, utterance, session, thinking, stream, answer, answerIdx,
              sent, runs, exc, path>>
factoryVars == <<env, agents, objects, calls, remoteCalls, overlapped>>
routeVars == <<routePc, routeQuery, invoked>>
lifeVars == <<chats, user_session, clients, threads, turns, endLog>>
chatVars == <<fe_session, requests, created>>
buildVars == <<builder, missing, buildPc, plugins, read_api_result>>
moreVars == <<routeVars, lifeVars, chatVars, buildVars>>
vars == <<echoVars, turnVars, factoryVars, moreVars>>

---------------------------------------------------------------------------
(* Characters and strings.                                                 *)

\* F applied to the value of v, which is computed once
Bind(v, F(_)) == CHOOSE y \in {F(x) : x \in {v}} : TRUE

\* the character at index i, "" outside the string
Char(s, i) == IF 1 <= i /\ i <= Len(s) THEN SubSeq(s, i, i) ELSE ""

UpperCase == "ABCDEFGHIJKLMNOPQRSTUVWXYZ"
LowerCase == "abcdefghijklmnopqrstuvwxyz"
Digits == "0123456789"
WhiteSpace == " \t\n\r\f"

Contains(str, c) == c # "" /\ \E i \in 1..Len(str) : Char(str, i) = c

IndexOf(str, c) == CHOOSE i \in 1..Len(str) : Char(str, i) = c

\* the characters of a string
Chars(str) == {Char(str, i) : i \in 1..Len(str)}

UpperChars == Chars(UpperCase)
SpaceChars == Chars(WhiteSpace)
WordChars == Chars(LowerCase \o UpperCase \o Digits \o "_")

\* regular-expression class \s
IsSpace(c) == c \in SpaceChars

\* regular-expression class \w (ASCII part): letters, digits, underscore
IsWord(c) == c \in WordChars

StartsAt(text, i, lit) ==
    /\ i + Len(lit) - 1 <= Len(text)
    /\ SubSeq(text, i, i + Len(lit) - 1) = lit

\* str.startswith
startswith(text, prefix) == StartsAt(text, 1, prefix)

\* the string of Each(i) for i in lo..hi, in order (halving keeps the
\* evaluation shallow on long texts)
RECURSIVE Join(_, _, _)
Join(Each(_), lo, hi) ==
    IF lo > hi THEN ""
    ELSE IF lo = hi THEN Each(lo)
    ELSE Bind((lo + hi) \div 2,
              LAMBDA mid : Join(Each, lo, mid) \o Join(Each, mid + 1, hi))

LowerChar(c) ==
    IF c \in UpperChars THEN Char(LowerCase, IndexOf(UpperCase, c)) ELSE c

\* str.lower
lower(text) ==
    Bind(text, LAMBDA t : Join(LAMBDA i : LowerChar(Char(t, i)), 1, Len(t)))

\* the first index from i on that holds no whitespace
RECURSIVE FirstNonSpace(_, _)
FirstNonSpace(t, i) ==
    IF i > Len(t) \/ ~IsSpace(Char(t, i)) THEN i ELSE FirstNonSpace(t, i + 1)

\* the last index up to j that holds no whitespace
RECURSIVE LastNonSpace(_, _)
LastNonSpace(t, j) ==
    IF j < 1 \/ ~IsSpace(Char(t, j)) THEN j ELSE LastNonSpace(t, j - 1)

\* str.strip: drops leading and trailing whitespace
strip(text) ==
    Bind(text, LAMBDA t : SubSeq(t, FirstNonSpace(t, 1), LastNonSpace(t, Len(t))))

PunctuationChar(c) == IF IsWord(c) \/ IsSpace(c) THEN c ELSE ""

\* re.sub(r'[^\w\s]', '', text)
sub_punctuation(text) ==
    Bind(text, LAMBDA t : Join(LAMBDA i : PunctuationChar(Char(t, i)), 1, Len(t)))

WhitespaceChar(t, i) ==
    IF ~IsSpace(Char(t, i)) THEN Char(t, i)
    ELSE IF IsSpace(Char(t, i - 1)) THEN ""
    ELSE " "

\* re.sub(r'\s+', ' ', text): every maximal run of whitespace becomes one space
sub_whitespace(text) ==
    Bind(text, LAMBDA t : Join(LAMBDA i : WhitespaceChar(t, i), 1, Len(t)))

---------------------------------------------------------------------------
(* Echo detection, src/apps/chainlit/app.py:758-802.                       *)

\* normalize_text (app.py:772-777)
normalize_text(text) == sub_whitespace(sub_punctuation(strip(lower(text))))

\* The length slack of the prefix test (app.py:787).
PrefixSlack == 20

\* A pattern is a sequence of groups; a group is the set of its alternatives.
\* "(please |)?" has the alternatives "please " and "".
clarification_patterns ==
    << << {"can you "},
          {"clarify", "explain", "elaborate", "specify", "provide more details"} >>,
       << {"what", "which", "how", "when", "where", "why"}, {" "},
          {"exactly", "specifically", "precisely"} >>,
       << {"do you want", "are you looking for", "would you like"} >>,
       << {"could you", "can you"}, {" "}, {"please ", ""},
          {"clarify", "explain", "elaborate"} >> >>

\* re.match(pattern, text): the pattern matches at the start of the text
RECURSIVE MatchFrom(_, _, _)
MatchFrom(groups, text, i) ==
    IF groups = << >> THEN TRUE
    ELSE \E alt \in Head(groups) :
            /\ StartsAt(text, i, alt)
            /\ \E j \in {i + Len(alt)} : MatchFrom(Tail(groups), text, j)

re_match(pattern, text) == MatchFrom(pattern, text, 1)

\* is_echo_of_question without its last pattern
is_echo_of_question_three_patterns(resp, quest) ==
    \E norm_response \in {normalize_text(resp)},
       norm_question \in {normalize_text(quest)} :
       \/ norm_response = norm_question
       \/ /\ startswith(norm_response, norm_question)
          /\ Len(norm_response) < Len(norm_question) + PrefixSlack
       \/ \E k \in 1..(Len(clarification_patterns) - 1) :
             re_match(clarification_patterns[k], norm_response)

\* is_echo_of_question (app.py:758-802)
is_echo_of_question(resp, quest) ==
    \E norm_response \in {normalize_text(resp)},
       norm_question \in {normalize_text(quest)} :
       \/ norm_response = norm_question
       \/ /\ startswith(norm_response, norm_question)
          /\ Len(norm_response) < Len(norm_question) + PrefixSlack
       \/ \E k \in 1..Len(clarification_patterns) :
             re_match(clarification_patterns[k], norm_response)

---------------------------------------------------------------------------
(* Schedule and Booking, src/apps/chainlit/app.py:51-73.                   *)
(*                                                                         *)
(* An Optional field is << >> (None) or <<v>>.  A float is <<m, k>>, the   *)
(* decimal m / 10^k with k minimal (15.5 is <<155, 1>>, 120.0 is <<120, 0>>).*)

None == << >>
Some(v) == <<v>>

RECURSIVE Pow10(_)
Pow10(k) == IF k = 0 THEN 1 ELSE 10 * Pow10(k - 1)

\* the float of the decimal m / 10^k
RECURSIVE Float(_, _)
Float(m, k) == IF k > 0 /\ m % 10 = 0 THEN Float(m \div 10, k - 1) ELSE <<m, k>>

\* str(int) for n >= 0
RECURSIVE NatStr(_)
NatStr(n) == IF n < 10 THEN Char(Digits, n + 1)
             ELSE NatStr(n \div 10) \o Char(Digits, (n % 10) + 1)

\* k decimal digits of n, zero padded on the left
RECURSIVE FracStr(_, _)
FracStr(n, k) == IF k = 0 THEN ""
                 ELSE FracStr(n \div 10, k - 1) \o Char(Digits, (n % 10) + 1)

\* the JSON text of a float: 15.5, 120.0, -0.25
float_json(f) ==
    LET m == f[1]
        k == f[2]
        a == IF m < 0 THEN -m ELSE m
    IN (IF m < 0 THEN "-" ELSE "")
       \o NatStr(a \div Pow10(k)) \o "."
       \o (IF k = 0 THEN "0" ELSE FracStr(a % Pow10(k), k))

EscapedChar(c) == IF c = "\"" \/ c = "\\" THEN "\\" \o c ELSE c

\* the JSON text of a str: quotes and backslashes are escaped
str_json(s) ==
    Bind(s, LAMBDA t : "\"" \o Join(LAMBDA i : EscapedChar(Char(t, i)), 1, Len(t)) \o "\"")

opt_float_json(o) == IF o = None THEN "null" ELSE float_json(o[1])
opt_str_json(o) == IF o = None THEN "null" ELSE str_json(o[1])

booking_json(b) ==
    "{\"id\":" \o str_json(b.id)
    \o ",\"date\":" \o str_json(b.date)
    \o ",\"address\":" \o str_json(b.address)
    \o ",\"weather\":" \o opt_str_json(b.weather)
    \o ",\"arrival_time\":" \o opt_str_json(b.arrival_time)
    \o ",\"departure_time\":" \o opt_str_json(b.departure_time) \o "}"

RECURSIVE bookings_json(_)
bookings_json(bs) ==
    IF bs = << >> THEN ""
    ELSE booking_json(Head(bs))
         \o (IF Len(bs) > 1 THEN "," ELSE "") \o bookings_json(Tail(bs))

\* Schedule.model_dump_json (app.py:122): compact JSON, fields in declaration order
model_dump_json(s) ==
    "{\"total_distance\":" \o opt_float_json(s.total_distance)
    \o ",\"total_duration\":" \o opt_float_json(s.total_duration)
    \o ",\"bookings\":[" \o bookings_json(s.bookings) \o "]}"

---------------------------------------------------------------------------
(* JSON text to JSON value.  A value is a tagged tuple: <<"null">>,        *)
(* <<"bool", b>>, <<"num", <<m, k>> >>, <<"str", s>>, <<"arr", values>>,   *)
(* <<"obj", members>> with members a sequence of <<key, value>>.  A parse  *)
(* result is <<ok, value, next index>>.                                    *)

JsonNull == <<"null">>
Fail(i) == <<FALSE, JsonNull, i>>

IsDigit(c) == c # "" /\ Contains(Digits, c)
DigitVal(c) == IndexOf(Digits, c) - 1

RECURSIVE ToNat(_)
ToNat(str) == IF str = "" THEN 0
              ELSE 10 * ToNat(SubSeq(str, 1, Len(str) - 1))
                   + DigitVal(Char(str, Len(str)))

AllDigits(str) == \A i \in 1..Len(str) : IsDigit(Char(str, i))

\* JSON whitespace
RECURSIVE SkipWs(_, _)
SkipWs(s, i) == IF Contains(" \t\n\r", Char(s, i)) THEN SkipWs(s, i + 1) ELSE i

\* the index after the last digit of the run of digits starting at i
RECURSIVE DigitsEnd(_, _)
DigitsEnd(s, i) == IF IsDigit(Char(s, i)) THEN DigitsEnd(s, i + 1) ELSE i

\* the number whose digits are s[a..b-1] and, when c > b, s[b+1..c-1] after
\* the point
NumberOf(s, neg, a, b, c) ==
    LET k == IF c > b THEN c - b - 1 ELSE 0
        m == ToNat(SubSeq(s, a, b - 1)) * Pow10(k)
             + (IF c > b THEN ToNat(SubSeq(s, b + 1, c - 1)) ELSE 0)
    IN <<"num", Float(IF neg THEN -m ELSE m, k)>>

\* number: -? (0 | [1-9][0-9]*) (. [0-9]+)?   (no exponent part)
ParseNumber(s, i) ==
    LET a == IF Char(s, i) = "-" THEN i + 1 ELSE i
        b == DigitsEnd(s, a)
        c == IF Char(s, b) = "." /\ IsDigit(Char(s, b + 1))
             THEN DigitsEnd(s, b + 1) ELSE b
    IN IF b = a \/ (b - a > 1 /\ Char(s, a) = "0") THEN Fail(a)
       ELSE <<TRUE, NumberOf(s, a > i, a, b, c), c>>

\* string: the characters from i on, after the opening quote
RECURSIVE ParseChars(_, _, _)
ParseChars(s, i, acc) ==
    LET c == Char(s, i)
        e == Char(s, i + 1)
    IN IF c = "" THEN Fail(i)
       ELSE IF c = "\"" THEN <<TRUE, <<"str", acc>>, i + 1>>
       ELSE IF c = "\\"
            THEN IF e = "\"" \/ e = "\\" \/ e = "/" THEN ParseChars(s, i + 2, acc \o e)
                 ELSE IF e = "n" THEN ParseChars(s, i + 2, acc \o "\n")
                 ELSE IF e = "t" THEN ParseChars(s, i + 2, acc \o "\t")
                 ELSE IF e = "r" THEN ParseChars(s, i + 2, acc \o "\r")
                 ELSE Fail(i)
       ELSE IF Contains("\t\n\r\f", c) THEN Fail(i)
       ELSE ParseChars(s, i + 1, acc \o c)

\* string: the opening quote is at i
ParseString(s, i) ==
    IF Char(s, i) = "\"" THEN Bind(i + 1, LAMBDA j : ParseChars(s, j, "")) ELSE Fail(i)

RECURSIVE ParseValue(_, _)
RECURSIVE ParseElements(_, _, _)
RECURSIVE ParseMembers(_, _, _)

\* array: the elements, i at the first of those left, acc those before it
ParseElements(s, i, acc) ==
    Bind(ParseValue(s, i), LAMBDA r :
        IF ~r[1] THEN Fail(i)
        ELSE IF Char(s, SkipWs(s, r[3])) = ","
             THEN ParseElements(s, SkipWs(s, SkipWs(s, r[3]) + 1), Append(acc, r[2]))
        ELSE IF Char(s, SkipWs(s, r[3])) = "]"
             THEN <<TRUE, <<"arr", Append(acc, r[2])>>, SkipWs(s, r[3]) + 1>>
        ELSE Fail(r[3]))

\* object: one member, its key at i: <<ok, <<key, value>>, next index>>
ParseMember(s, i) ==
    Bind(ParseString(s, i), LAMBDA key :
        IF ~key[1] \/ Char(s, SkipWs(s, key[3])) # ":" THEN Fail(i)
        ELSE Bind(ParseValue(s, SkipWs(s, SkipWs(s, key[3]) + 1)), LAMBDA r :
                IF r[1] THEN <<TRUE, <<key[2][2], r[2]>>, SkipWs(s, r[3])>>
                ELSE Fail(i)))

\* object: the members, i at the key of the first of those left
ParseMembers(s, i, acc) ==
    Bind(ParseMember(s, i), LAMBDA m :
        IF ~m[1] THEN Fail(i)
        ELSE IF Char(s, m[3]) = ","
             THEN ParseMembers(s, SkipWs(s, m[3] + 1), Append(acc, m[2]))
        ELSE IF Char(s, m[3]) = "}"
             THEN <<TRUE, <<"obj", Append(acc, m[2])>>, m[3] + 1>>
        ELSE Fail(m[3]))

\* the JSON value that starts at i
ParseValue(s, i) ==
    IF Char(s, i) = "{"
    THEN IF Char(s, SkipWs(s, i + 1)) = "}"
         THEN <<TRUE, <<"obj", << >> >>, SkipWs(s, i + 1) + 1>>
         ELSE ParseMembers(s, SkipWs(s, i + 1), << >>)
    ELSE IF Char(s, i) = "["
    THEN IF Char(s, SkipWs(s, i + 1)) = "]"
         THEN <<TRUE, <<"arr", << >> >>, SkipWs(s, i + 1) + 1>>
         ELSE ParseElements(s, SkipWs(s, i + 1), << >>)
    ELSE IF Char(s, i) = "\"" THEN ParseString(s, i)
    ELSE IF Char(s, i) = "-" \/ IsDigit(Char(s, i)) THEN ParseNumber(s, i)
    ELSE IF StartsAt(s, i, "null") THEN <<TRUE, JsonNull, i + 4>>
    ELSE IF StartsAt(s, i, "true") THEN <<TRUE, <<"bool", TRUE>>, i + 4>>
    ELSE IF StartsAt(s, i, "false") THEN <<TRUE, <<"bool", FALSE>>, i + 5>>
    ELSE Fail(i)

\* the whole text is one JSON value, surrounded by optional whitespace:
\* <<ok, value>>
json_loads(text) ==
    Bind(text, LAMBDA s :
    Bind(ParseValue(s, SkipWs(s, 1)), LAMBDA r :
        IF r[1] /\ SkipWs(s, r[3]) = Len(s) + 1 THEN <<TRUE, r[2]>>
        ELSE <<FALSE, JsonNull>>))

---------------------------------------------------------------------------
(* Validation of a JSON value as a Schedule, src/apps/chainlit/app.py:51-73.*)

\* the value of the last member named key, << >> when there is none
Lookup(members, key) ==
    LET hits == {i \in 1..Len(members) : members[i][1] = key}
    IN IF hits = {} THEN << >>
       ELSE <<members[CHOOSE i \in hits : \A j \in hits : j <= i][2]>>

IsLeap(y) == (y % 4 = 0 /\ y % 100 # 0) \/ y % 400 = 0

DaysInMonth(y, m) ==
    IF m = 2 THEN (IF IsLeap(y) THEN 29 ELSE 28)
    ELSE IF m \in {4, 6, 9, 11} THEN 30 ELSE 31

\* strptime directive %m: 1[0-2] | 0[1-9] | [1-9]
MonthDirective(str) ==
    \/ Len(str) = 2 /\ Char(str, 1) = "1" /\ Contains("012", Char(str, 2))
    \/ Len(str) = 2 /\ Char(str, 1) = "0" /\ Contains("123456789", Char(str, 2))
    \/ Len(str) = 1 /\ Contains("123456789", str)

\* strptime directive %d: 3[0-1] | [1-2]\d | 0[1-9] | [1-9] | " "[1-9]
DayDirective(str) ==
    \/ Len(str) = 2 /\ Char(str, 1) = "3" /\ Contains("01", Char(str, 2))
    \/ Len(str) = 2 /\ Contains("12", Char(str, 1)) /\ IsDigit(Char(str, 2))
    \/ Len(str) = 2 /\ Contains("0 ", Char(str, 1)) /\ Contains("123456789", Char(str, 2))
    \/ Len(str) = 1 /\ Contains("123456789", str)

\* the digits of a directive's match ("5" of " 5")
DirectiveVal(str) == ToNat(IF Char(str, 1) = " " THEN SubSeq(str, 2, Len(str)) ELSE str)

\* datetime.strptime(v, "%Y-%m-%d") returns (does not raise ValueError)
strptime_Ymd(v) ==
    \E ml \in {1, 2} :
        \E ys \in {SubSeq(v, 1, IF Len(v) < 4 THEN Len(v) ELSE 4)},
           ms \in {SubSeq(v, 6, IF Len(v) < 5 + ml THEN Len(v) ELSE 5 + ml)},
           ds \in {SubSeq(v, 7 + ml, Len(v))} :
           /\ Len(v) >= 7 + ml
           /\ AllDigits(ys)
           /\ Char(v, 5) = "-"
           /\ MonthDirective(ms)
           /\ Char(v, 6 + ml) = "-"
           /\ DayDirective(ds)
           /\ ToNat(ys) >= 1
           /\ DirectiveVal(ds) <= DaysInMonth(ToNat(ys), ToNat(ms))

\* Booking.validate_date_format (app.py:60-67)
validate_date_format(v) == strptime_Ymd(v)

\* a field declared str: a JSON string, nothing else
required_str(members, key) ==
    Bind(Lookup(members, key), LAMBDA f :
        IF f # << >> /\ f[1][1] = "str" THEN <<TRUE, f[1][2]>> ELSE <<FALSE, "">>)

\* a field declared Optional[str] = None
optional_str(members, key) ==
    Bind(Lookup(members, key), LAMBDA f :
        IF f = << >> \/ f[1][1] = "null" THEN <<TRUE, None>>
        ELSE IF f[1][1] = "str" THEN <<TRUE, Some(f[1][2])>>
        ELSE <<FALSE, None>>)

\* the float of a numeric string: <<ok, float>>
float_of_str(str) ==
    Bind(ParseNumber(str, 1), LAMBDA n :
        IF n[1] /\ n[3] = Len(str) + 1 THEN <<TRUE, Some(n[2][2])>>
        ELSE <<FALSE, None>>)

\* a field declared Optional[float] = None: a number, a boolean or a numeric
\* string converts to a float
optional_float(members, key) ==
    Bind(Lookup(members, key), LAMBDA f :
        IF f = << >> \/ f[1][1] = "null" THEN <<TRUE, None>>
        ELSE IF f[1][1] = "num" THEN <<TRUE, Some(f[1][2])>>
        ELSE IF f[1][1] = "bool" THEN <<TRUE, Some(<<IF f[1][2] THEN 1 ELSE 0, 0>>)>>
        ELSE IF f[1][1] = "str" THEN float_of_str(f[1][2])
        ELSE <<FALSE, None>>)

NoBooking ==
    [id |-> "", date |-> "", address |-> "", weather |-> None,
     arrival_time |-> None, departure_time |-> None]

\* Booking (app.py:51-67) from the members of a JSON object: <<ok, booking>>
booking_of(members) ==
    Bind(<<required_str(members, "id"), required_str(members, "date"),
           required_str(members, "address"), optional_str(members, "weather"),
           optional_str(members, "arrival_time"),
           optional_str(members, "departure_time")>>, LAMBDA f :
        IF /\ \A k \in 1..6 : f[k][1]
           /\ validate_date_format(f[2][2])
        THEN <<TRUE, [id |-> f[1][2], date |-> f[2][2], address |-> f[3][2],
                      weather |-> f[4][2], arrival_time |-> f[5][2],
                      departure_time |-> f[6][2]]>>
        ELSE <<FALSE, NoBooking>>)

\* Booking from a JSON value: <<ok, booking>>
validate_booking(v) ==
    IF v[1] # "obj" THEN <<FALSE, NoBooking>> ELSE booking_of(v[2])

NoSchedule == [total_distance |-> None, total_duration |-> None, bookings |-> << >>]

\* List[Booking] with default_factory=list: <<ok, bookings>>
bookings_of(members) ==
    Bind(Lookup(members, "bookings"), LAMBDA f :
        IF f = << >> THEN <<TRUE, << >> >>
        ELSE IF f[1][1] # "arr" THEN <<FALSE, << >> >>
        ELSE Bind([i \in 1..Len(f[1][2]) |-> validate_booking(f[1][2][i])], LAMBDA bs :
                IF \A i \in 1..Len(bs) : bs[i][1]
                THEN <<TRUE, [i \in 1..Len(bs) |-> bs[i][2]]>>
                ELSE <<FALSE, << >> >>))

\* Schedule (app.py:69-73) from a JSON value: <<ok, schedule>>
validate_schedule(v) ==
    IF v[1] # "obj" THEN <<FALSE, NoSchedule>>
    ELSE Bind(<<optional_float(v[2], "total_distance"),
                optional_float(v[2], "total_duration"),
                bookings_of(v[2])>>, LAMBDA f :
            IF f[1][1] /\ f[2][1] /\ f[3][1]
            THEN <<TRUE, [total_distance |-> f[1][2], total_duration |-> f[2][2],
                          bookings |-> f[3][2]]>>
            ELSE <<FALSE, NoSchedule>>)

\* Schedule.model_validate_json (app.py:820): <<ok, schedule>>, not ok when the
\* library raises
model_validate_json(text) ==
    Bind(json_loads(text), LAMBDA j :
        IF j[1] THEN validate_schedule(j[2]) ELSE <<FALSE, NoSchedule>>)

\* parse_schedule_data (app.py:804-823): Some(schedule), or None when
\* validation raised
parse_schedule_data(content) ==
    Bind(model_validate_json(content), LAMBDA r :
        IF r[1] THEN Some(r[2]) ELSE None)

---------------------------------------------------------------------------
(* Inputs of the echo check: an utterance, its spellings that differ in    *)
(* case, punctuation and whitespace, its extensions, and other responses.  *)

\* the longest extension of an utterance that is tried
MaxExtra == 22

Leads == {"", "  ", "> "}
Firsts == {"what", "What"}
Gaps == {" ", "   ", ", "}
Tails == {"", "?", " ?", "!  "}

\* "what are my bookings today" in its spellings
Spelling(lead, first, gap, tail) ==
    lead \o first \o " are my bookings" \o gap \o "today" \o tail

Spellings ==
    {Spelling(l, f, g, t) : l \in Leads, f \in Firsts, g \in Gaps, t \in Tails}

Extension(text, n) == text \o SubSeq(LowerCase, 1, n)

EchoQuestions ==
    {Spelling(l, "what", " ", t) : l \in Leads, t \in Tails}
    \cup {"hi", "Show my schedule", "?!"}

EchoResponses ==
    Spellings
    \cup {Extension(q, n) : q \in {"what are my bookings today", "hi", "?!"},
                            n \in (PrefixSlack - 2)..MaxExtra}
    \cup {"Could you clarify what date range you mean?",
          "You have 3 bookings today: ...",
          "Can you please explain what you need?",
          "can you provide more details",
          "What exactly are you looking for?",
          "Would you like a summary?",
          "Can you tell me more?",
          "> Can you clarify?",
          "Sure. Could you clarify the date?",
          "hi there", "Hi", ""}

\* one call is_echo_of_question(response, question)
EchoCheck ==
    /\ echoResult = "none"
    /\ echoResult' = IF is_echo_of_question(echoResponse, echoQuestion)
                     THEN "echo" ELSE "no_echo"
    /\ UNCHANGED <<echoResponse, echoQuestion, turnVars, factoryVars, moreVars>>

---------------------------------------------------------------------------
(* The turn handler on_message, src/apps/chainlit/app.py:595-688.          *)

\* the longest stream of one turn
MaxChunks == 3

\* a message sent to the user: its kind, its text, the stream chunks it
\* carries, and for a schedule message the Schedule and the names of its
\* elements
Msg(kind, content, idx, data, elements) ==
    [kind |-> kind, content |-> content, idx |-> idx, data |-> data,
     elements |-> elements]

ThinkingText == "Analyzing your request..."
EmptyResponseText ==
    "I couldn't generate a proper response. Could you please rephrase your question?"
FallbackText ==
    "I processed your request but couldn't generate a proper response. Please try a more specific question about bookings, customers, teams, or setup guides."
ErrorText(e) ==
    "Error: " \o e \o ". Please try again or contact support if the issue persists."
SessionMissingText == "Session data is missing. Please restart the chat."
ScheduleText == "Here's your optimized schedule:"

\* the Schedule of the round-trip example, one with every optional field set
\* and characters that JSON escapes, and the empty one
ExampleSchedule ==
    [total_distance |-> Some(Float(155, 1)),
     total_duration |-> Some(Float(120, 0)),
     bookings |-> << [id |-> "b1", date |-> "2024-03-20", address |-> "123 Main St",
                      weather |-> None, arrival_time |-> None,
                      departure_time |-> None] >>]

FullSchedule ==
    [total_distance |-> Some(Float(75, 1)),
     total_duration |-> None,
     bookings |-> << [id |-> "booking1", date |-> "2024-03-20",
                      address |-> "5 \"B\" St", weather |-> Some("Sunny"),
                      arrival_time |-> Some("09:00"),
                      departure_time |-> Some("10:00")] >>]

Schedules == {ExampleSchedule, FullSchedule, NoSchedule}

\* a booking whose date strptime accepts although it is not YYYY-MM-DD
ShortDateJson ==
    "{\"bookings\":[{\"id\":\"b1\",\"date\":\"2024-3-20\",\"address\":\"123 Main St\"}]}"

\* the start of a JSON object: partial JSON
PartialJson == "{\"bookings\":["

\* what one chunk of the stream may hold
TurnChunks ==
    {model_dump_json(sch) : sch \in Schedules}
    \cup {"", "What are my bookings today?",
          "Could you clarify what date range you mean?",
          "You have 3 bookings today",
          PartialJson, ShortDateJson}

\* what the user may send
TurnUtterances ==
    {"what are my bookings today", "bookings", "?",
     model_dump_json(ExampleSchedule)}

\* is_echo_of_question(chunk, utterance) and parse_schedule_data(chunk) on the
\* chunks and utterances of the turns, each computed once
ChunkEcho == [c \in TurnChunks, u \in TurnUtterances |-> is_echo_of_question(c, u)]
ChunkSchedule == [c \in TurnChunks |-> parse_schedule_data(c)]

\* the session after on_chat_start (app.py:583-593): the four variables are
\* set together at the end of a successful start, auth_settings to whatever
\* the copilot function returned; nothing is set when the start failed
SessionStates ==
    {[triage_agent |-> TRUE, thread |-> TRUE, auth_settings |-> "set"],
     [triage_agent |-> TRUE, thread |-> TRUE, auth_settings |-> "empty"],
     [triage_agent |-> FALSE, thread |-> FALSE, auth_settings |-> "none"]}

\* a test of the agent and the thread only
session_has_agent(ses) == ses.triage_agent /\ ses.thread

\* all([triage_agent, thread, auth_settings]) (app.py:611)
session_complete(ses) ==
    ses.triage_agent /\ ses.thread /\ ses.auth_settings = "set"

\* a handler that catches ValueError only
Catches_value_error(type) == type = "ValueError"

\* "except Exception" (app.py:684) catches every exception raised in the turn
Catches(type) == TRUE

\* send_schedule_message (app.py:825-860) for the chunk at index i
send_schedule_message(schedule_data, i) ==
    Msg("schedule", ScheduleText, <<i>>, Some(schedule_data),
        (IF schedule_data.total_distance # None THEN <<"metrics">> ELSE << >>)
        \o [k \in 1..Len(schedule_data.bookings) |-> schedule_data.bookings[k].id])

\* an end of the stream that sends the fallback only for an echo
closing_silent(ans, idx, utt) ==
    IF ans = "" THEN << >>
    ELSE IF ~is_echo_of_question(ans, utt)
    THEN <<Msg("answer", ans, idx, None, << >>)>>
    ELSE <<Msg("fallback", FallbackText, << >>, None, << >>)>>

\* the end of the stream (app.py:675-682): the messages sent for the answer
closing(ans, idx, utt) ==
    IF ans # "" /\ ~is_echo_of_question(ans, utt)
    THEN <<Msg("answer", ans, idx, None, << >>)>>
    ELSE <<Msg("fallback", FallbackText, << >>, None, << >>)>>

\* a message arrives (app.py:596-616): the session is read and the thinking
\* message sent, or ValueError raised
OnMessage(u) ==
    /\ pc \in {"idle", "done"}
    /\ utterance' = u
    /\ stream' = << >>
    /\ answer' = ""
    /\ answerIdx' = << >>
    /\ runs' = 0
    /\ IF session_complete(session)
       THEN /\ sent' = <<Msg("thinking", ThinkingText, << >>, None, << >>)>>
            /\ thinking' = "shown"
            /\ exc' = None
            /\ path' = "none"
            /\ pc' = "get_response"
       ELSE /\ sent' = << >>
            /\ thinking' = "none"
            /\ exc' = Some(<<"ValueError", SessionMissingText>>)
            /\ path' = "missing"
            /\ pc' = "except"
    /\ UNCHANGED <<session, echoVars, factoryVars, moreVars>>

\* triage_agent.get_response returns or raises (app.py:634-651).  main
\* sets no time limit of its own: a timeout is an exception the runtime's
\* client raises out of the call
GetResponse(outcome) ==
    /\ pc = "get_response"
    /\ runs' = runs + 1
    /\ CASE outcome = "raise" ->
              /\ exc' = Some(<<"RuntimeError", "agent runtime unavailable">>)
              /\ path' = "raised"
              /\ pc' = "except"
              /\ UNCHANGED <<thinking, sent>>
         [] outcome = "timeout" ->
              /\ exc' = Some(<<"TimeoutError", "request timed out">>)
              /\ path' = "timeout"
              /\ pc' = "except"
              /\ UNCHANGED <<thinking, sent>>
         [] outcome = "empty" ->
              /\ thinking' = "removed"
              /\ sent' = Append(sent, Msg("empty", EmptyResponseText, << >>, None, << >>))
              /\ path' = "empty"
              /\ pc' = "done"
              /\ UNCHANGED exc
         [] outcome = "content" ->
              /\ thinking' = "removed"
              /\ pc' = "stream"
              /\ UNCHANGED <<sent, exc, path>>
    /\ UNCHANGED <<utterance, session, stream, answer, answerIdx, echoVars, factoryVars, moreVars>>

\* a stream_token that keeps the last token only
stream_token_last(content, token) == token

\* answer.stream_token (app.py:673): the token is appended to answer.content
stream_token(content, token) == content \o token

\* invoke_stream yields one more chunk and the loop body handles it
\* (app.py:654-673)
StreamChunk(c) ==
    /\ pc = "stream"
    /\ Len(stream) < MaxChunks
    /\ stream' = Append(stream, c)
    /\ runs' = IF stream = << >> THEN runs + 1 ELSE runs
    /\ \E i \in {Len(stream) + 1}, schedule_data \in {ChunkSchedule[c]} :
          IF c = "" \/ ChunkEcho[c, utterance]
          THEN UNCHANGED <<answer, answerIdx, sent>>
          ELSE IF schedule_data # None
          THEN /\ sent' = Append(sent, send_schedule_message(schedule_data[1], i))
               /\ UNCHANGED <<answer, answerIdx>>
          ELSE /\ answer' = stream_token(answer, c)
               /\ answerIdx' = Append(answerIdx, i)
               /\ UNCHANGED sent
    /\ UNCHANGED <<pc, utterance, session, thinking, exc, path, echoVars, factoryVars, moreVars>>

\* invoke_stream raises instead of yielding
StreamRaise ==
    /\ pc = "stream"
    /\ runs' = IF stream = << >> THEN runs + 1 ELSE runs
    /\ exc' = Some(<<"RuntimeError", "agent runtime unavailable">>)
    /\ path' = "raised"
    /\ pc' = "except"
    /\ UNCHANGED <<utterance, session, thinking, stream, answer, answerIdx, sent,
                   echoVars, factoryVars, moreVars>>

\* the stream ends and the answer or the fallback is sent (app.py:675-682)
StreamEnd ==
    /\ pc = "stream"
    /\ runs' = IF stream = << >> THEN runs + 1 ELSE runs
    /\ sent' = sent \o closing(answer, answerIdx, utterance)
    /\ path' = "stream_end"
    /\ pc' = "done"
    /\ UNCHANGED <<utterance, session, thinking, stream, answer, answerIdx, exc,
                   echoVars, factoryVars, moreVars>>

\* an except clause that also drops the thread of the session
Except_drops_thread ==
    /\ pc = "except"
    /\ sent' = Append(sent, Msg("error", ErrorText(exc[1][2]), << >>, None, << >>))
    /\ exc' = None
    /\ session' = [session EXCEPT !.thread = FALSE]
    /\ pc' = "done"
    /\ UNCHANGED <<utterance, thinking, stream, answer, answerIdx, runs,
                   path, echoVars, factoryVars, moreVars>>

\* the handler of the try block (app.py:684-688)
Except ==
    /\ pc = "except"
    /\ IF Catches(exc[1][1])
       THEN /\ sent' = Append(sent, Msg("error", ErrorText(exc[1][2]), << >>, None, << >>))
            /\ exc' = None
       ELSE UNCHANGED <<sent, exc>>
    /\ pc' = "done"
    /\ UNCHANGED <<utterance, session, thinking, stream, answer, answerIdx, runs,
                   path, echoVars, factoryVars, moreVars>>

---------------------------------------------------------------------------
(* AgentFactory, src/agents/factory.py, called by the backend's chat       *)
(* requests (src/apps/backend/main.py:44-75).  Each request is a task of   *)
(* the event loop; another task may run at every await.                    *)

\* how many get_agent calls are made
MaxCalls == 3

\* the agent types _create_agent knows (factory.py:29-38)
KnownTypes == {"smart_scheduling", "smart_importer"}

\* the agent types requests name; the last is the default of
\* ChatMessage.agent_type (main.py:42)
RequestedTypes == KnownTypes \cup {"azure_smart_scheduling"}

\* no agent object
NoAgent == 0

CallsIn(pcs) == {c \in 1..Len(calls) : calls[c].pc \in pcs}

InFlight == CallsIn({"start", "create", "initialize", "create_remote"})

\* a request calls get_agent(agent_type)
StartCall(type) ==
    /\ Len(calls) < MaxCalls
    /\ calls' = Append(calls, [type |-> type, pc |-> "start", agent |-> NoAgent,
                               result |-> NoAgent])
    /\ overlapped' = (overlapped \/ InFlight # {})
    /\ UNCHANGED <<env, agents, objects, remoteCalls, echoVars, turnVars, moreVars>>

\* get_agent up to "await self._create_agent" (factory.py:18-21)
GetAgentCheck(c) ==
    /\ calls[c].pc = "start"
    /\ LET type == calls[c].type
       IN IF type \in KnownTypes /\ agents[type] # NoAgent
          THEN calls' = [calls EXCEPT ![c].pc = "returned", ![c].result = agents[type]]
          ELSE calls' = [calls EXCEPT ![c].pc = "create"]
    /\ UNCHANGED <<env, agents, objects, remoteCalls, overlapped, echoVars, turnVars, moreVars>>

\* _create_agent and the cache entry, up to "await agent.initialize()"
\* (factory.py:21-24, 27-40)
CreateAgent(c) ==
    /\ calls[c].pc = "create"
    /\ LET type == calls[c].type
           id == Len(objects) + 1
       IN IF type \notin KnownTypes
          THEN /\ calls' = [calls EXCEPT ![c].pc = "returned", ![c].result = NoAgent]
               /\ UNCHANGED <<agents, objects>>
          ELSE IF ~env.conn
          THEN /\ calls' = [calls EXCEPT ![c].pc = "raised"]
               /\ UNCHANGED <<agents, objects>>
          ELSE /\ objects' = Append(objects, [type |-> type, agent |-> FALSE])
               /\ agents' = [agents EXCEPT ![type] = id]
               /\ calls' = [calls EXCEPT ![c].pc = "initialize", ![c].agent = id]
    /\ UNCHANGED <<env, remoteCalls, overlapped, echoVars, turnVars, moreVars>>

\* initialize up to "await self.create()": the credential and the project
\* client are made, or this raises (agent.py:50-69, 72-74)
Initialize(c, ok) ==
    /\ calls[c].pc = "initialize"
    /\ calls' = [calls EXCEPT ![c].pc = IF ok THEN "create_remote" ELSE "raised"]
    /\ UNCHANGED <<env, agents, objects, remoteCalls, overlapped, echoVars, turnVars, moreVars>>

\* create: the remote create_agent call (agent.py:167-175), then the return
\* of initialize and of get_agent (agent.py:70-74, factory.py:25)
CreateRemote(c, ok) ==
    /\ calls[c].pc = "create_remote"
    /\ LET type == calls[c].type
       IN IF ~env.model
          THEN /\ calls' = [calls EXCEPT ![c].pc = "raised"]
               /\ UNCHANGED <<objects, remoteCalls>>
          ELSE /\ remoteCalls' = [remoteCalls EXCEPT ![type] = @ + 1]
               /\ IF ok
                  THEN /\ objects' = [objects EXCEPT ![calls[c].agent].agent = TRUE]
                       /\ calls' = [calls EXCEPT ![c].pc = "returned",
                                                 ![c].result = calls[c].agent]
                  ELSE /\ calls' = [calls EXCEPT ![c].pc = "raised"]
                       /\ UNCHANGED objects
    /\ UNCHANGED <<env, agents, overlapped, echoVars, turnVars, moreVars>>

\* get_available_agents (factory.py:42-44)
get_available_agents == {"smart_scheduling", "smart_importer"}

\* the HTTP status with which /chat answers the request of call c
\* (backend/main.py:44-75).  get_agent of main.py raises HTTPException(400)
\* for a missing agent inside its own try block, whose 'except Exception'
\* catches it (HTTPException is an Exception) and raises HTTPException(500);
\* an exception of the factory takes the same way; chat wraps whatever it
\* catches in HTTPException(500) once more.
chat_status(c) ==
    IF calls[c].pc = "raised" THEN 500
    ELSE IF calls[c].result = NoAgent
    THEN (IF Catches("HTTPException") THEN 500 ELSE 400)
    ELSE 200

---------------------------------------------------------------------------
(* Routing: the triage agent and its plugins                               *)
(* (src/apps/chainlit/custom_agents/triage).  The triage agent is a remote *)
(* model given TRIAGE_INSTRUCTIONS and a list of plugin agents; which      *)
(* plugin it calls, in which order and with which derived query is decided *)
(* by that model during get_response.  The code passes the instructions    *)
(* and the plugins and takes no further part.                              *)

\* how many plugin invocations one turn makes
MaxInvocations == 3

\* the keys of the dictionary ReadAPIClient.initialize returns
\* (read_api/__init__.py:246-255)
ApiAgentNames == {"address", "booking", "customer", "document", "employee",
                  "pet", "team", "tenant"}

\* the plugins TriageClient.initialize gives the triage agent
\* (triage/__init__.py:78-84)
TriagePlugins == {"setup_guide", "data_analysis"} \cup ApiAgentNames

\* TRIAGE_INSTRUCTIONS: the topics for which the instructions ask for the
\* customer agent first (constants.py:21-23); the agent of a topic bears
\* the topic's name
CustomerScoped == {"pet", "address", "booking"}

\* a customer invocation has returned its response (with the "id" field)
CustomerResolved ==
    \E j \in 1..Len(invoked) : invoked[j].agent = "customer" /\ invoked[j].returned

\* the triage agent's model calls one of its plugins with a derived query;
\* the query can carry the customer id only once a customer invocation has
\* returned it.  Nothing in the code orders or filters these calls.
InvokePlugin(agent, has_id) ==
    /\ routePc = "routing"
    /\ Len(invoked) < MaxInvocations
    /\ agent \in TriagePlugins
    /\ has_id => CustomerResolved
    /\ invoked' = Append(invoked, [agent |-> agent, has_id |-> has_id,
                                   resolved_before |-> CustomerResolved,
                                   returned |-> FALSE])
    /\ UNCHANGED <<routePc, routeQuery, echoVars, turnVars, factoryVars, lifeVars, chatVars, buildVars>>

\* a plugin invocation returns its response to the triage agent's model
PluginReturn(i) ==
    /\ routePc = "routing"
    /\ ~invoked[i].returned
    /\ invoked' = [invoked EXCEPT ![i].returned = TRUE]
    /\ UNCHANGED <<routePc, routeQuery, echoVars, turnVars, factoryVars, lifeVars, chatVars, buildVars>>

\* get_response returns the triage agent's answer
RouteAnswer ==
    /\ routePc = "routing"
    /\ \A i \in 1..Len(invoked) : invoked[i].returned
    /\ routePc' = "answered"
    /\ UNCHANGED <<routeQuery, invoked, echoVars, turnVars, factoryVars, lifeVars, chatVars, buildVars>>

---------------------------------------------------------------------------
(* Chat sessions: start, main and end of src/apps/chainlit/app.py, with    *)
(* several sessions and several turns in flight.  Chainlit gives every     *)
(* chat its own cl.user_session, calls start when the chat opens, main for *)
(* every message of an open chat (each call a task of its own) and end     *)
(* when the chat closes.  What a turn streams and sends is the subject of  *)
(* Spec; here a turn is followed through its suspension points only.       *)

\* the chats opened, in this order
Chats == {1, 2}

\* how many messages arrive, over all chats
MaxTurns == 2

\* no client or thread object
NoHandle == 0

\* one thread object made once and used by every chat
shared_thread(s) == 1

\* the thread object start constructs for chat s:
\* AzureAIAgentThread(client=client), a new object on every call
\* (app.py:573)
new_thread(s) == s

\* start (app.py:413-593).  outcome: ok, or the step that raises:
\* no_client (DefaultAzureCredential or create_client, app.py:428-431) or
\* no_agents (a tool, an agent definition or the auth settings,
\* app.py:434-581).  The session variables are set only at the end
\* (app.py:584-587); the except clause sends the initialization error.
start(s, outcome) ==
    /\ chats[s] = "none"
    /\ \A r \in {q \in Chats : q < s} : chats[r] # "none"
    /\ chats' = [chats EXCEPT ![s] = "open"]
    /\ clients' = IF outcome = "no_client" THEN clients ELSE clients \cup {s}
    /\ threads' = IF outcome = "ok" THEN threads \cup {new_thread(s)} ELSE threads
    /\ user_session' =
          IF outcome = "ok"
          THEN [user_session EXCEPT ![s] = [client |-> s, thread |-> new_thread(s)]]
          ELSE user_session
    /\ UNCHANGED <<turns, endLog, echoVars, turnVars, factoryVars, routeVars, chatVars,
                   buildVars>>

\* main up to its first suspension (app.py:603-616): the session variables
\* are read; when one is missing ValueError is raised and the except
\* clause takes over
main_arrive(s) ==
    /\ chats[s] = "open"
    /\ Len(turns) < MaxTurns
    /\ turns' = Append(turns,
          [sid |-> s,
           thread |-> user_session[s].thread,
           pc |-> IF user_session[s].thread = NoHandle THEN "except" ELSE "thinking",
           closed_at_arrival |->
               {user_session[r].thread : r \in {q \in Chats : chats[q] = "closed"}},
           consumed_after_end |-> FALSE,
           sent_after_end |-> FALSE])
    /\ UNCHANGED <<chats, user_session, clients, threads, endLog,
                   echoVars, turnVars, factoryVars, routeVars,
                   chatVars, buildVars>>

\* await triage_agent.get_response(thread=thread, ...) (app.py:634-637):
\* the message is submitted to the thread the turn read at its arrival
main_get_response(i) ==
    /\ turns[i].pc = "thinking"
    /\ turns' = [turns EXCEPT ![i].pc = "submitted"]
    /\ UNCHANGED <<chats, user_session, clients, threads, endLog,
                   echoVars, turnVars, factoryVars, routeVars,
                   chatVars, buildVars>>

\* one round of 'async for content in triage_agent.invoke_stream'
\* (app.py:654-673): the first round follows the return of get_response.
\* The loop tests nothing but the stream itself.
main_stream(i) ==
    /\ turns[i].pc \in {"submitted", "stream"}
    /\ turns' = [turns EXCEPT ![i].pc = "stream",
                              ![i].consumed_after_end = @ \/ chats[turns[i].sid] = "closed"]
    /\ UNCHANGED <<chats, user_session, clients, threads, endLog,
                   echoVars, turnVars, factoryVars, routeVars,
                   chatVars, buildVars>>

\* the last message of the turn: the answer or the fallback after the
\* loop (app.py:676-682), the empty-response message (app.py:644-648), or
\* the error message of the except clause (app.py:684-688), to which every
\* exception of the earlier steps leads
main_reply(i) ==
    /\ turns[i].pc \in {"submitted", "stream", "except"}
    /\ turns' = [turns EXCEPT ![i].pc = "done",
                              ![i].sent_after_end = chats[turns[i].sid] = "closed"]
    /\ UNCHANGED <<chats, user_session, clients, threads, endLog,
                   echoVars, turnVars, factoryVars, routeVars,
                   chatVars, buildVars>>

\* end (app.py:690-704): the client stored by start, if any, is closed;
\* an exception of close() is logged.  Nothing else is done: the session
\* variables stay, the thread is not touched, the turns in flight go on.
end(s, close_ok) ==
    /\ chats[s] = "open"
    /\ chats' = [chats EXCEPT ![s] = "closed"]
    /\ clients' = IF user_session[s].client # NoHandle /\ close_ok
                  THEN clients \ {user_session[s].client}
                  ELSE clients
    /\ endLog' = [endLog EXCEPT ![s] =
                     IF user_session[s].client = NoHandle THEN "no client"
                     ELSE IF close_ok THEN "closed successfully"
                     ELSE "error closing client"]
    /\ UNCHANGED <<user_session, threads, turns,
                   echoVars, turnVars, factoryVars, routeVars,
                   chatVars, buildVars>>

---------------------------------------------------------------------------
(* The frontend and the backend: main of src/apps/frontend/app.py posts    *)
(* each message to /chat of src/apps/backend/main.py, which passes it to   *)
(* process_message of the agent of the chosen type.                        *)

\* how many messages the frontend session sends
MaxRequests == 3

\* the thread process_request works on (smart_scheduling/agent.py:181,
\* smart_importer/agent.py:164-169): the scheduling agent creates a thread
\* on every request; the importer uses the thread of thread_id when one is
\* passed and creates a thread otherwise
process_request_thread(agent_type, thread_id, fresh) ==
    IF agent_type = "smart_importer" /\ thread_id # NoHandle
    THEN thread_id
    ELSE fresh

\* the id of the agent an initialized SmartSchedulingAgent or
\* SmartImporterAgent holds (self.agent.id)
AgentId == 1

\* a result whose run without an assistant message is reported under the
\* key response
process_request_reply_only(outcome, thread, run) ==
    IF outcome = "raised"
    THEN [error |-> "exception", status |-> "failed"]
    ELSE IF outcome = "run_failed"
    THEN [error |-> "last_error", status |-> "failed"]
    ELSE IF outcome = "no_reply"
    THEN [response |-> "No response from agent", status |-> "completed"]
    ELSE [response |-> "text", status |-> "completed",
          agent_id |-> AgentId, thread_id |-> thread, run_id |-> run]

\* the result of process_request (smart_scheduling/agent.py:177-234,
\* smart_importer/agent.py:160-230), whose whole body is one try block:
\*   raised      any exception, also the AttributeError of an agent whose
\*               project_client or agent is still None
\*   run_failed  run.status is "failed"
\*   no_reply    the messages of the thread hold no text of the assistant;
\*               status is the status of the run, which did not fail
\*   ok          the last text of the assistant, with the ids of self.agent,
\*               of the thread worked on and of the run
process_request(outcome, thread, run) ==
    IF outcome = "raised"
    THEN [error |-> "exception", status |-> "failed"]
    ELSE IF outcome = "run_failed"
    THEN [error |-> "last_error", status |-> "failed"]
    ELSE IF outcome = "no_reply"
    THEN [error |-> "No response from agent", status |-> "completed"]
    ELSE [response |-> "text", status |-> "completed",
          agent_id |-> AgentId, thread_id |-> thread, run_id |-> run]

\* the message main of the frontend sends for a result
\* (frontend/app.py:142-200): the error message when status is "failed",
\* the schedule when the result has a schedule, and otherwise a regular
\* message with the response or, without one, "No response from agent"
show_result(result) ==
    IF result.status = "failed" THEN "error"
    ELSE IF "schedule" \in DOMAIN result THEN "schedule"
    ELSE IF "response" \in DOMAIN result THEN "response"
    ELSE "no response from agent"

\* one call of the frontend's main (frontend/app.py:115-211) with the
\* backend's work for it (backend/main.py:58-75).  The frontend posts
\* message, agent_type, thread_id and agent_id; ChatMessage keeps message
\* and agent_type (backend/main.py:40-42) and process_message passes the
\* message alone, so process_request gets no thread_id.  outcome:
\*   http_error  the post raises (no connection, timeout after 30 s, status
\*               500 from get_agent): nothing reaches an agent and there is
\*               no result
\*   raised, run_failed, no_reply, ok
\*               the outcomes of process_request; raised is an exception
\*               before create_thread returns
\* After a result whose status is not "failed" the frontend stores the
\* agent_id and the thread_id the result has (frontend/app.py:151-157).
chat_turn(outcome) ==
    /\ Len(requests) < MaxRequests
    /\ LET used == IF outcome \in {"http_error", "raised"}
                   THEN NoHandle
                   ELSE process_request_thread(fe_session.agent_type, NoHandle,
                                               created + 1)
           result == IF outcome = "http_error"
                     THEN None
                     ELSE process_request(outcome, used, Len(requests) + 1)
           failed == outcome = "http_error" \/ result.status = "failed"
       IN /\ requests' = Append(requests,
                 [posted_thread_id |-> fe_session.thread_id,
                  thread |-> used,
                  outcome |-> outcome,
                  result |-> result,
                  message |-> IF outcome = "http_error" THEN "connection error"
                              ELSE show_result(result),
                  session_before |-> fe_session])
          /\ created' = IF used > created THEN used ELSE created
          /\ fe_session' =
                [fe_session EXCEPT
                    !.agent_id = IF ~failed /\ "agent_id" \in DOMAIN result
                                 THEN result.agent_id ELSE @,
                    !.thread_id = IF ~failed /\ "thread_id" \in DOMAIN result
                                  THEN result.thread_id ELSE @]
    /\ UNCHANGED <<echoVars, turnVars, factoryVars, routeVars, lifeVars, buildVars>>

---------------------------------------------------------------------------
(* The agents built for a chat and their plugins.  Two builds exist: start *)
(* of src/apps/chainlit/app.py builds all agents itself; the clients of    *)
(* src/apps/chainlit/custom_agents build them in three calls               *)
(* (SetupGuideClient.initialize, ReadAPIClient.initialize, whose result is *)
(* passed to TriageClient.initialize).  plugins maps every agent built to  *)
(* the list of agents it was given as plugins.                             *)

\* the order in which ReadAPIClient.initialize creates the API agents,
\* which is also the order of the dictionary it returns
\* (read_api/__init__.py:236-254)
ApiOrder == <<"address", "booking", "customer", "document", "employee",
              "pet", "team", "tenant">>

\* the APIs start creates a tool and an agent for (app.py:437-441); the
\* specification of tenant is looked up under the name tenants
AppApiNames == {"booking", "customer", "document", "team", "tenant"}

\* a plugin list with the triage agent itself in it
triage_plugins_cyclic(setup_guide_agent, data_analysis_agent, api_agents) ==
    <<setup_guide_agent, data_analysis_agent, "triage">> \o api_agents

\* the plugins TriageClient.initialize gives the triage agent
\* (triage/__init__.py:78-84)
triage_plugins(setup_guide_agent, data_analysis_agent, api_agents) ==
    <<setup_guide_agent, data_analysis_agent>> \o api_agents

\* SetupGuideClient.initialize (setup_guide/__init__.py:52-66)
SetupGuideInitialize ==
    /\ buildPc = "setup_guide"
    /\ plugins' = plugins @@ [a \in {"user_setup"} |-> << >>]
                          @@ [a \in {"setup_guide"} |-> <<"user_setup">>]
    /\ buildPc' = "read_api"
    /\ UNCHANGED <<builder, missing, read_api_result,
                   echoVars, turnVars, factoryVars, routeVars, lifeVars, chatVars>>

\* ReadAPIClient.initialize (read_api/__init__.py:220-256): the agents are
\* created one after the other; _load_openapi_spec raises FileNotFoundError
\* for a missing swagger.json (read_api/__init__.py:52-54), and nothing
\* catches it: the agents created before it stay created, the others are
\* not created and no dictionary is returned
ReadApiInitialize ==
    /\ buildPc = "read_api"
    /\ LET gone == {i \in 1..Len(ApiOrder) : ApiOrder[i] \in missing}
           stop == IF gone = {} THEN Len(ApiOrder) + 1
                   ELSE CHOOSE i \in gone : \A k \in gone : i <= k
       IN /\ plugins' = plugins @@ [a \in {ApiOrder[i] : i \in 1..(stop - 1)} |-> << >>]
          /\ read_api_result' = IF gone = {} THEN ApiOrder ELSE read_api_result
          /\ buildPc' = IF gone = {} THEN "triage" ELSE "failed"
    /\ UNCHANGED <<builder, missing,
                   echoVars, turnVars, factoryVars, routeVars, lifeVars, chatVars>>

\* TriageClient.initialize (triage/__init__.py:62-88)
TriageInitialize ==
    /\ buildPc = "triage"
    /\ plugins' = plugins @@ [a \in {"data_analysis"} |-> << >>]
                          @@ [a \in {"triage"} |->
                                 triage_plugins("setup_guide", "data_analysis",
                                                read_api_result)]
    /\ buildPc' = "done"
    /\ UNCHANGED <<builder, missing, read_api_result,
                   echoVars, turnVars, factoryVars, routeVars, lifeVars, chatVars>>

\* the agents of start (app.py:434-570): the five tools are created first
\* (app.py:437-441), where create_api_tool raises FileNotFoundError for a
\* missing swagger.json (app.py:158-160); the exception leaves the try
\* block and no agent is built.  Otherwise the eight agents are built with
\* the plugins of app.py:518-570.
StartAgents ==
    /\ buildPc = "start"
    /\ IF missing \cap AppApiNames # {}
       THEN /\ buildPc' = "failed"
            /\ UNCHANGED plugins
       ELSE /\ buildPc' = "done"
            /\ plugins' = [a \in {"setup_guide", "data_analysis"} |-> << >>]
                          @@ [a \in AppApiNames |-> <<"data_analysis">>]
                          @@ [a \in {"triage"} |->
                                 <<"setup_guide", "customer", "document", "team",
                                   "tenant", "booking">>]
    /\ UNCHANGED <<builder, missing, read_api_result,
                   echoVars, turnVars, factoryVars, routeVars, lifeVars, chatVars>>

\* the agents reached from the agents of S by following plugins
RECURSIVE Closure(_)
Closure(S) ==
    LET N == S \cup UNION {{plugins[c][k] : k \in 1..Len(plugins[c])} :
                              c \in S \cap DOMAIN plugins}
    IN IF N = S THEN S ELSE Closure(N)

\* the agents agent a has, directly or transitively, as plugins
Descendants(a) == Closure({plugins[a][k] : k \in 1..Len(plugins[a])})

---------------------------------------------------------------------------
(* Properties of the turn handler (Spec).                                  *)

\* the positions in sent of the messages of the given kinds
Sent(kinds) == {m \in 1..Len(sent) : sent[m].kind \in kinds}

Range(seq) == {seq[k] : k \in 1..Len(seq)}

\* the chunk at position i of the stream was empty or an echo of the utterance
Degenerate(i) == stream[i] = "" \/ ChunkEcho[stream[i], utterance]

\* C1: a turn whose stream was consumed to its end without an exception has
\* sent exactly one closing message, as its last message: the accumulated
\* answer when it is non-empty and not an echo of the utterance, else the
\* fallback; a stream of empty and echo chunks only ends in the fallback.
ExactlyOneClosingMessage ==
    (pc = "done" /\ path = "stream_end") =>
        /\ Cardinality(Sent({"answer", "fallback"})) = 1
        /\ Sent({"answer", "fallback"}) = {Len(sent)}
        /\ IF answer # "" /\ ~is_echo_of_question(answer, utterance)
           THEN sent[Len(sent)] = Msg("answer", answer, answerIdx, None, << >>)
           ELSE sent[Len(sent)] = Msg("fallback", FallbackText, << >>, None, << >>)
        /\ (\A i \in 1..Len(stream) : Degenerate(i)) => sent[Len(sent)].kind = "fallback"

\* a turn of two or more chunks, all empty or echoes, ended in the fallback
AllDegenerateTurnEnded ==
    /\ pc = "done" /\ path = "stream_end"
    /\ Len(stream) >= 2
    /\ \A i \in 1..Len(stream) : Degenerate(i)
    /\ \E i \in 1..Len(stream) : stream[i] # ""
    /\ sent[Len(sent)].kind = "fallback"

\* the text of the failure message of a path
FailureText ==
    CASE path = "missing" -> ErrorText(SessionMissingText)
      [] path = "empty" -> EmptyResponseText
      [] path = "raised" -> ErrorText("agent runtime unavailable")
      [] path = "timeout" -> ErrorText("request timed out")
      [] OTHER -> ""

\* C2: when the handler has returned, no exception is left to propagate and
\* at least one reply other than the thinking message was sent; on a failure
\* path (session data missing, empty response, exception or timeout raised
\* by the runtime before or in the middle of the stream) exactly one failure
\* message was sent, as the last message, describing the failure.
EveryTurnAnswered ==
    pc = "done" =>
        /\ exc = None
        /\ Sent({"answer", "fallback", "schedule", "empty", "error"}) # {}
        /\ path \in {"missing", "empty", "raised", "timeout"} =>
              /\ Sent({"empty", "error", "fallback"}) = {Len(sent)}
              /\ sent[Len(sent)].kind = (IF path = "empty" THEN "empty" ELSE "error")
              /\ sent[Len(sent)].content = FailureText

\* the runtime raised in the middle of a stream and the turn ended in the
\* error message
MidStreamFailureAnswered ==
    /\ pc = "done" /\ path = "raised"
    /\ stream # << >>
    /\ sent[Len(sent)].kind = "error"

\* C3: when a schedule message is sent, every chunk buffered as free text
\* before that chunk has already been delivered in a message sent before it.
BufferFlushedBeforeSchedule ==
    \A m \in Sent({"schedule"}) :
        \A k \in 1..Len(answerIdx) :
            answerIdx[k] < sent[m].idx[1] =>
                \E j \in 1..(m - 1) : /\ sent[j].kind = "answer"
                                      /\ answerIdx[k] \in Range(sent[j].idx)

\* a date of four, two and two digits
IsYmd(date) ==
    /\ Len(date) = 10
    /\ Char(date, 5) = "-" /\ Char(date, 8) = "-"
    /\ AllDigits(SubSeq(date, 1, 4) \o SubSeq(date, 6, 7) \o SubSeq(date, 9, 10))

\* C7: every schedule message carries bookings whose dates are YYYY-MM-DD,
\* and every non-empty chunk that is not a valid Schedule is in the
\* free-text buffer.
OnlyValidSchedulesEmitted ==
    /\ \A m \in Sent({"schedule"}) :
          \A b \in Range(sent[m].data[1].bookings) : IsYmd(b.date)
    /\ \A i \in 1..Len(stream) :
          (stream[i] # "" /\ ChunkSchedule[stream[i]] = None) => i \in Range(answerIdx)

\* C8: every chunk that is the JSON text of a Schedule has made exactly one
\* schedule message, whose Schedule equals the original, and is not in the
\* free-text buffer.
RoundTripEmitsOneElement ==
    \A i \in 1..Len(stream) :
        \A sch \in Schedules :
            stream[i] = model_dump_json(sch) =>
                /\ Cardinality({m \in Sent({"schedule"}) : sent[m].idx = <<i>>}) = 1
                /\ \A m \in Sent({"schedule"}) :
                      sent[m].idx = <<i>> => sent[m].data = Some(sch)
                /\ i \notin Range(answerIdx)

ChunkConservation ==
    /\ answer = Join(LAMBDA i : IF Degenerate(i) \/ ChunkSchedule[stream[i]] # None
                                THEN "" ELSE stream[i],
                     1, Len(stream))
    /\ {sent[m].idx[1] : m \in Sent({"schedule"})}
          = {i \in 1..Len(stream) : ~Degenerate(i) /\ ChunkSchedule[stream[i]] # None}
    /\ \A m \in Sent({"schedule"}) : sent[m].idx[1] \notin Range(answerIdx)

\* a stream with a skipped chunk, a schedule and free text was consumed to
\* its end
MixedStreamEnded ==
    /\ pc = "done" /\ path = "stream_end"
    /\ answer # ""
    /\ Sent({"schedule"}) # {}
    /\ \E i \in 1..Len(stream) : Degenerate(i)

OneRunPerTurn ==
    /\ runs <= 1
    /\ (pc = "done" /\ path = "stream_end") => runs = 1

---------------------------------------------------------------------------
(* Properties of the echo check (EchoSpec).                                *)

\* the text in lower case, without punctuation, with single spaces inside and
\* none at its ends
Canonical(text) == strip(sub_whitespace(sub_punctuation(lower(text))))

Clarifying(norm_response) ==
    \E k \in 1..Len(clarification_patterns) :
        re_match(clarification_patterns[k], norm_response)

\* C4: a response and an utterance that differ only in case, punctuation and
\* whitespace are an echo.
EchoInsensitive ==
    (echoResult # "none" /\ Canonical(echoResponse) = Canonical(echoQuestion))
        => echoResult = "echo"

\* C5: a normalized response that starts with the normalized utterance and
\* starts with no clarifying pattern is an echo if and only if it is at most
\* PrefixSlack characters longer.
PrefixRuleAtMostSlack ==
    \A nr \in {normalize_text(echoResponse)}, nq \in {normalize_text(echoQuestion)} :
        (echoResult # "none" /\ startswith(nr, nq) /\ ~Clarifying(nr)) =>
            (echoResult = "echo" <=> Len(nr) <= Len(nq) + PrefixSlack)

\* C6: the result is an echo exactly when the normalized response equals the
\* normalized utterance, or extends it by fewer than PrefixSlack characters,
\* or starts with a clarifying pattern; the clarifying question of the
\* example is an echo and the substantive answer of the example is not.
EchoExactlyThreeRules ==
    \A nr \in {normalize_text(echoResponse)}, nq \in {normalize_text(echoQuestion)} :
        echoResult # "none" =>
            /\ echoResult = "echo" <=>
                  \/ nr = nq
                  \/ startswith(nr, nq) /\ Len(nr) - Len(nq) < PrefixSlack
                  \/ Clarifying(nr)
            /\ echoResponse = "Could you clarify what date range you mean?"
                  => echoResult = "echo"
            /\ (/\ echoResponse = "You have 3 bookings today: ..."
                /\ echoQuestion = "what are my bookings today")
                  => echoResult = "no_echo"

\* the clarifying question of the example was checked and is an echo
ClarifyingQuestionFlagged ==
    /\ echoResponse = "Could you clarify what date range you mean?"
    /\ echoQuestion = "what are my bookings today"
    /\ echoResult = "echo"

\* C30: when the utterance normalizes to the empty string, a response that
\* is not empty after normalization, is shorter than PrefixSlack characters
\* and starts with no clarifying pattern is not an echo.
EmptyUtteranceNotFlagged ==
    \A nr \in {normalize_text(echoResponse)}, nq \in {normalize_text(echoQuestion)} :
        (/\ echoResult # "none"
         /\ nq = ""
         /\ nr # "" /\ Len(nr) < PrefixSlack
         /\ ~Clarifying(nr))
            => echoResult = "no_echo"

---------------------------------------------------------------------------
(* Properties of the factory (FactorySpec).                                *)

\* the calls for a type that are in one of the positions
CallsOf(type, pcs) == {c \in CallsIn(pcs) : calls[c].type = type}

\* the agent objects constructed for a type
ObjectsOf(type) == {o \in 1..Len(objects) : objects[o].type = type}

\* C9: when the calls ran one after the other, all calls for a type that
\* returned an agent returned the same object, and that agent was
\* constructed once and its remote creation call made once.
GetAgentIdempotent ==
    ~overlapped =>
        \A type \in KnownTypes :
            CallsOf(type, {"returned"}) # {} =>
                /\ \A c, d \in CallsOf(type, {"returned"}) :
                      calls[c].result = calls[d].result
                /\ Cardinality(ObjectsOf(type)) = 1
                /\ remoteCalls[type] = 1

MissingModelStopsStartup ==
    ~env.model =>
        /\ calls = << >>
        /\ \A type \in KnownTypes : agents[type] = NoAgent /\ remoteCalls[type] = 0

\* C22: a call for a type that is not registered returns no agent, leaves
\* the cache as it was, and its request is answered with status 400.
UnknownTypeAnswered400 ==
    \A c \in CallsIn({"returned", "raised"}) :
        calls[c].type \notin KnownTypes =>
            /\ calls[c].pc = "returned"
            /\ calls[c].result = NoAgent
            /\ chat_status(c) = 400

\* C26: the agent the cache holds for a type, once no call is initializing
\* it any more, is an agent whose initialize completed; so is every agent a
\* call returned.
CacheHoldsInitialized ==
    /\ \A type \in KnownTypes :
          (/\ agents[type] # NoAgent
           /\ \A c \in CallsOf(type, {"initialize", "create_remote"}) :
                 calls[c].agent # agents[type])
              => objects[agents[type]].agent
    /\ \A c \in CallsIn({"returned"}) :
          calls[c].result # NoAgent => objects[calls[c].result].agent

\* C29: the types advertised are the types _create_agent knows, and a
\* request that names no type (it gets the default of ChatMessage.agent_type)
\* is served by an agent.
DefaultTypeServed ==
    /\ get_available_agents = KnownTypes
    /\ \A c \in CallsIn({"returned"}) :
          calls[c].type = "azure_smart_scheduling" => calls[c].result # NoAgent

---------------------------------------------------------------------------
(* Properties of the routing (RouteSpec).                                  *)

\* C11: for a customer-scoped pet, address or booking query, every
\* invocation of the dependent agent is made after a customer invocation
\* has returned, and its derived query carries the returned id.
DependentAfterCustomer ==
    \A i \in 1..Len(invoked) :
        (routeQuery \in CustomerScoped /\ invoked[i].agent = routeQuery)
            => (invoked[i].resolved_before /\ invoked[i].has_id)

---------------------------------------------------------------------------
(* Properties of the chat sessions (LifeSpec).                             *)

\* C12: once end has run for a chat, the chat's thread object is released
\* and its session variables are evicted, whether or not close() failed,
\* and end has completed (it logged its outcome).
EndedSessionTornDown ==
    \A s \in Chats :
        chats[s] = "closed" =>
            /\ endLog[s] # "none"
            /\ user_session[s] = [client |-> NoHandle, thread |-> NoHandle]
            /\ \A t \in threads : t # new_thread(s)

TurnsInArrivalOrder ==
    \A i, j \in 1..Len(turns) :
        (i < j /\ turns[i].sid = turns[j].sid
               /\ turns[j].pc \in {"submitted", "stream", "done"})
            => turns[i].pc = "done"

\* C19: after the chat has ended a turn consumes no further chunk and
\* sends no further message, and the release of the chat's thread has been
\* attempted.
EndStopsTheStream ==
    \A i \in 1..Len(turns) :
        /\ ~turns[i].consumed_after_end
        /\ ~turns[i].sent_after_end
        /\ chats[turns[i].sid] = "closed" => turns[i].thread \notin threads

---------------------------------------------------------------------------
(* Properties of the frontend and backend (ChatSpec).                      *)

\* C14: all turns of one session are submitted to the same thread: the
\* requests of the session that reached a thread reached one and the same
\* thread, and a turn of a session that has a thread creates no other.
OneThreadPerSession ==
    \A i, j \in 1..Len(requests) :
        (requests[i].thread # NoHandle /\ requests[j].thread # NoHandle)
            => requests[i].thread = requests[j].thread

\* the requests that reached process_request, which are those with a result
Processed == {i \in 1..Len(requests) : requests[i].outcome # "http_error"}

\* C21: process_request returns a result with the key optimized_schedule,
\* whose value has bookings and route.
ResultHasOptimizedSchedule ==
    \A i \in Processed :
        /\ "optimized_schedule" \in DOMAIN requests[i].result
        /\ {"bookings", "route"} \subseteq DOMAIN requests[i].result.optimized_schedule

\* C25: process_request always returns a result, and the result has exactly
\* one of response and error.  A failed run gives an error with the status
\* of the run, a run without an assistant message gives the error
\* "No response from agent", an exception gives status "failed", and a
\* result with a response has the ids of the agent, of the thread worked on
\* and of the run.
ResultIsResponseOrError ==
    \A i \in Processed :
        LET r == requests[i].result
            o == requests[i].outcome
        IN /\ ("response" \in DOMAIN r) # ("error" \in DOMAIN r)
           /\ "status" \in DOMAIN r
           /\ o = "run_failed" => ("error" \in DOMAIN r /\ r.status = "failed")
           /\ o = "no_reply" => ("error" \in DOMAIN r /\ r.error = "No response from agent")
           /\ o = "raised" => ("error" \in DOMAIN r /\ r.status = "failed")
           /\ "response" \in DOMAIN r =>
                 /\ o = "ok"
                 /\ {"agent_id", "thread_id", "run_id"} \subseteq DOMAIN r
                 /\ r.agent_id = AgentId
                 /\ r.thread_id = requests[i].thread
                 /\ r.thread_id # NoHandle
                 /\ r.run_id = i

\* C25 happens: one session has seen a raised exception, a run without an
\* assistant message and an answer
EveryKindOfResultReturned ==
    {"raised", "no_reply", "ok"} \subseteq {requests[i].outcome : i \in Processed}

\* C28: a result with an error is shown as the error message, and the
\* agent_id and thread_id stored in the session stay as they were.
ErrorResultShownAsError ==
    \A i \in Processed :
        "error" \in DOMAIN requests[i].result =>
            /\ requests[i].message = "error"
            /\ LET after == IF i < Len(requests)
                            THEN requests[i + 1].session_before
                            ELSE fe_session
               IN /\ after.agent_id = requests[i].session_before.agent_id
                  /\ after.thread_id = requests[i].session_before.thread_id

---------------------------------------------------------------------------
(* Properties of the agents built (BuildSpec).                             *)

\* C16: when the API description of a specialist is missing, the
\* specialists whose description is present are still created and the
\* triage agent is built with them as plugins.
MissingSpecIsolated ==
    buildPc \in {"done", "failed"} =>
        \A a \in (IF builder = "app" THEN AppApiNames ELSE ApiAgentNames) \ missing :
            /\ a \in DOMAIN plugins
            /\ "triage" \in DOMAIN plugins
            /\ \E k \in 1..Len(plugins["triage"]) : plugins["triage"][k] = a

\* no agent is its own descendant and no agent has the triage agent as a
\* plugin
PluginsAcyclic ==
    \A a \in DOMAIN plugins :
        /\ a \notin Descendants(a)
        /\ \A k \in 1..Len(plugins[a]) : plugins[a][k] # "triage"

\* the plugin list of agent a holds exactly the agents of S, each once
ExactlyPlugins(a, S) ==
    /\ {plugins[a][k] : k \in 1..Len(plugins[a])} = S
    /\ Len(plugins[a]) = Cardinality(S)

---------------------------------------------------------------------------
(* Specifications.  Each runs one part of the program; the variables of    *)
(* the other parts stay as they start.                                     *)

\* the echo check on every input pair
EchoInit ==
    /\ echoResponse \in EchoResponses
    /\ echoQuestion \in EchoQuestions
    /\ echoResult = "none"
    /\ pc = "idle" /\ utterance = "" /\ thinking = "none" /\ stream = << >>
    /\ session = [triage_agent |-> TRUE, thread |-> TRUE, auth_settings |-> "set"]
    /\ answer = "" /\ answerIdx = << >> /\ sent = << >> /\ runs = 0
    /\ exc = None /\ path = "none"
    /\ env = [conn |-> TRUE, model |-> TRUE]
    /\ agents = [t \in KnownTypes |-> NoAgent]
    /\ objects = << >> /\ calls = << >>
    /\ remoteCalls = [t \in KnownTypes |-> 0]
    /\ overlapped = FALSE
    /\ routePc = "idle" /\ routeQuery = "none" /\ invoked = << >>
    /\ chats = [s \in Chats |-> "none"]
    /\ user_session = [s \in Chats |-> [client |-> NoHandle, thread |-> NoHandle]]
    /\ clients = {} /\ threads = {} /\ turns = << >>
    /\ endLog = [s \in Chats |-> "none"]
    /\ fe_session = [agent_type |-> "smart_scheduling", thread_id |-> NoHandle, agent_id |-> NoHandle]
    /\ requests = << >> /\ created = 0
    /\ builder = "app" /\ missing = {} /\ buildPc = "idle"
    /\ plugins = << >> /\ read_api_result = << >>

EchoNext == EchoCheck

EchoSpec == EchoInit /\ [][EchoNext]_vars

\* the turns of one chat session
TurnInit ==
    /\ pc = "idle"
    /\ utterance = ""
    /\ session \in SessionStates
    /\ thinking = "none"
    /\ stream = << >>
    /\ answer = ""
    /\ answerIdx = << >>
    /\ sent = << >>
    /\ runs = 0
    /\ exc = None
    /\ path = "none"
    /\ echoResponse = "" /\ echoQuestion = "" /\ echoResult = "none"
    /\ env = [conn |-> TRUE, model |-> TRUE]
    /\ agents = [t \in KnownTypes |-> NoAgent]
    /\ objects = << >> /\ calls = << >>
    /\ remoteCalls = [t \in KnownTypes |-> 0]
    /\ overlapped = FALSE
    /\ routePc = "idle" /\ routeQuery = "none" /\ invoked = << >>
    /\ chats = [s \in Chats |-> "none"]
    /\ user_session = [s \in Chats |-> [client |-> NoHandle, thread |-> NoHandle]]
    /\ clients = {} /\ threads = {} /\ turns = << >>
    /\ endLog = [s \in Chats |-> "none"]
    /\ fe_session = [agent_type |-> "smart_scheduling", thread_id |-> NoHandle, agent_id |-> NoHandle]
    /\ requests = << >> /\ created = 0
    /\ builder = "app" /\ missing = {} /\ buildPc = "idle"
    /\ plugins = << >> /\ read_api_result = << >>

TurnNext ==
    \/ \E u \in TurnUtterances : OnMessage(u)
    \/ \E outcome \in {"content", "empty", "raise", "timeout"} : GetResponse(outcome)
    \/ \E c \in TurnChunks : StreamChunk(c)
    \/ StreamRaise
    \/ StreamEnd
    \/ Except

Spec == TurnInit /\ [][TurnNext]_vars

\* the get_agent calls of the backend's requests
FactoryInit ==
    /\ env \in [conn : BOOLEAN, model : BOOLEAN]
    /\ agents = [t \in KnownTypes |-> NoAgent]
    /\ objects = << >>
    /\ calls = << >>
    /\ remoteCalls = [t \in KnownTypes |-> 0]
    /\ overlapped = FALSE
    /\ echoResponse = "" /\ echoQuestion = "" /\ echoResult = "none"
    /\ pc = "idle" /\ utterance = "" /\ thinking = "none" /\ stream = << >>
    /\ session = [triage_agent |-> TRUE, thread |-> TRUE, auth_settings |-> "set"]
    /\ answer = "" /\ answerIdx = << >> /\ sent = << >> /\ runs = 0
    /\ exc = None /\ path = "none"
    /\ routePc = "idle" /\ routeQuery = "none" /\ invoked = << >>
    /\ chats = [s \in Chats |-> "none"]
    /\ user_session = [s \in Chats |-> [client |-> NoHandle, thread |-> NoHandle]]
    /\ clients = {} /\ threads = {} /\ turns = << >>
    /\ endLog = [s \in Chats |-> "none"]
    /\ fe_session = [agent_type |-> "smart_scheduling", thread_id |-> NoHandle, agent_id |-> NoHandle]
    /\ requests = << >> /\ created = 0
    /\ builder = "app" /\ missing = {} /\ buildPc = "idle"
    /\ plugins = << >> /\ read_api_result = << >>

FactoryNext ==
    \/ \E type \in RequestedTypes : StartCall(type)
    \/ \E c \in 1..Len(calls) : GetAgentCheck(c)
    \/ \E c \in 1..Len(calls) : CreateAgent(c)
    \/ \E c \in 1..Len(calls), ok \in BOOLEAN : Initialize(c, ok)
    \/ \E c \in 1..Len(calls), ok \in BOOLEAN : CreateRemote(c, ok)

FactorySpec == FactoryInit /\ [][FactoryNext]_vars

\* the plugin invocations of one triage turn: main has handed a query about
\* some topic to the triage agent (app.py:634-637)
RouteInit ==
    /\ routePc = "routing"
    /\ routeQuery \in CustomerScoped \cup {"team"}
    /\ invoked = << >>
    /\ echoResponse = "" /\ echoQuestion = "" /\ echoResult = "none"
    /\ pc = "idle" /\ utterance = "" /\ thinking = "none" /\ stream = << >>
    /\ session = [triage_agent |-> TRUE, thread |-> TRUE, auth_settings |-> "set"]
    /\ answer = "" /\ answerIdx = << >> /\ sent = << >> /\ runs = 0
    /\ exc = None /\ path = "none"
    /\ env = [conn |-> TRUE, model |-> TRUE]
    /\ agents = [t \in KnownTypes |-> NoAgent]
    /\ objects = << >> /\ calls = << >>
    /\ remoteCalls = [t \in KnownTypes |-> 0]
    /\ overlapped = FALSE
    /\ chats = [s \in Chats |-> "none"]
    /\ user_session = [s \in Chats |-> [client |-> NoHandle, thread |-> NoHandle]]
    /\ clients = {} /\ threads = {} /\ turns = << >>
    /\ endLog = [s \in Chats |-> "none"]
    /\ fe_session = [agent_type |-> "smart_scheduling", thread_id |-> NoHandle, agent_id |-> NoHandle]
    /\ requests = << >> /\ created = 0
    /\ builder = "app" /\ missing = {} /\ buildPc = "idle"
    /\ plugins = << >> /\ read_api_result = << >>

RouteNext ==
    \/ \E agent \in TriagePlugins, has_id \in BOOLEAN : InvokePlugin(agent, has_id)
    \/ \E i \in 1..Len(invoked) : PluginReturn(i)
    \/ RouteAnswer

RouteSpec == RouteInit /\ [][RouteNext]_vars

\* the chats of the Chainlit application and their turns
LifeInit ==
    /\ chats = [s \in Chats |-> "none"]
    /\ user_session = [s \in Chats |-> [client |-> NoHandle, thread |-> NoHandle]]
    /\ clients = {}
    /\ threads = {}
    /\ turns = << >>
    /\ endLog = [s \in Chats |-> "none"]
    /\ echoResponse = "" /\ echoQuestion = "" /\ echoResult = "none"
    /\ pc = "idle" /\ utterance = "" /\ thinking = "none" /\ stream = << >>
    /\ session = [triage_agent |-> TRUE, thread |-> TRUE, auth_settings |-> "set"]
    /\ answer = "" /\ answerIdx = << >> /\ sent = << >> /\ runs = 0
    /\ exc = None /\ path = "none"
    /\ env = [conn |-> TRUE, model |-> TRUE]
    /\ agents = [t \in KnownTypes |-> NoAgent]
    /\ objects = << >> /\ calls = << >>
    /\ remoteCalls = [t \in KnownTypes |-> 0]
    /\ overlapped = FALSE
    /\ routePc = "idle" /\ routeQuery = "none" /\ invoked = << >>
    /\ fe_session = [agent_type |-> "smart_scheduling", thread_id |-> NoHandle, agent_id |-> NoHandle]
    /\ requests = << >> /\ created = 0
    /\ builder = "app" /\ missing = {} /\ buildPc = "idle"
    /\ plugins = << >> /\ read_api_result = << >>

LifeNext ==
    \/ \E s \in Chats, outcome \in {"ok", "no_client", "no_agents"} : start(s, outcome)
    \/ \E s \in Chats : main_arrive(s)
    \/ \E i \in 1..Len(turns) : main_get_response(i)
    \/ \E i \in 1..Len(turns) : main_stream(i)
    \/ \E i \in 1..Len(turns) : main_reply(i)
    \/ \E s \in Chats, close_ok \in BOOLEAN : end(s, close_ok)

LifeSpec == LifeInit /\ [][LifeNext]_vars

\* the messages of one frontend session; the agent type is the one chosen when
\* the chat started
ChatInit ==
    /\ fe_session \in [agent_type : KnownTypes, thread_id : {NoHandle}, agent_id : {NoHandle}]
    /\ requests = << >>
    /\ created = 0
    /\ echoResponse = "" /\ echoQuestion = "" /\ echoResult = "none"
    /\ pc = "idle" /\ utterance = "" /\ thinking = "none" /\ stream = << >>
    /\ session = [triage_agent |-> TRUE, thread |-> TRUE, auth_settings |-> "set"]
    /\ answer = "" /\ answerIdx = << >> /\ sent = << >> /\ runs = 0
    /\ exc = None /\ path = "none"
    /\ env = [conn |-> TRUE, model |-> TRUE]
    /\ agents = [t \in KnownTypes |-> NoAgent]
    /\ objects = << >> /\ calls = << >>
    /\ remoteCalls = [t \in KnownTypes |-> 0]
    /\ overlapped = FALSE
    /\ routePc = "idle" /\ routeQuery = "none" /\ invoked = << >>
    /\ chats = [s \in Chats |-> "none"]
    /\ user_session = [s \in Chats |-> [client |-> NoHandle, thread |-> NoHandle]]
    /\ clients = {} /\ threads = {} /\ turns = << >>
    /\ endLog = [s \in Chats |-> "none"]
    /\ builder = "app" /\ missing = {} /\ buildPc = "idle"
    /\ plugins = << >> /\ read_api_result = << >>

ChatNext ==
    \/ \E outcome \in {"http_error", "raised", "run_failed", "no_reply", "ok"} : chat_turn(outcome)

ChatSpec == ChatInit /\ [][ChatNext]_vars

\* the agents built for a chat, by either build, with any set of API
\* descriptions missing
BuildInit ==
    /\ builder \in {"app", "clients"}
    /\ missing \in SUBSET ApiAgentNames
    /\ buildPc = (IF builder = "app" THEN "start" ELSE "setup_guide")
    /\ plugins = << >>
    /\ read_api_result = << >>
    /\ echoResponse = "" /\ echoQuestion = "" /\ echoResult = "none"
    /\ pc = "idle" /\ utterance = "" /\ thinking = "none" /\ stream = << >>
    /\ session = [triage_agent |-> TRUE, thread |-> TRUE, auth_settings |-> "set"]
    /\ answer = "" /\ answerIdx = << >> /\ sent = << >> /\ runs = 0
    /\ exc = None /\ path = "none"
    /\ env = [conn |-> TRUE, model |-> TRUE]
    /\ agents = [t \in KnownTypes |-> NoAgent]
    /\ objects = << >> /\ calls = << >>
    /\ remoteCalls = [t \in KnownTypes |-> 0]
    /\ overlapped = FALSE
    /\ routePc = "idle" /\ routeQuery = "none" /\ invoked = << >>
    /\ chats = [s \in Chats |-> "none"]
    /\ user_session = [s \in Chats |-> [client |-> NoHandle, thread |-> NoHandle]]
    /\ clients = {} /\ threads = {} /\ turns = << >>
    /\ endLog = [s \in Chats |-> "none"]
    /\ fe_session = [agent_type |-> "smart_scheduling", thread_id |-> NoHandle, agent_id |-> NoHandle]
    /\ requests = << >> /\ created = 0

BuildNext ==
    \/ SetupGuideInitialize
    \/ ReadApiInitialize
    \/ TriageInitialize
    \/ StartAgents

BuildSpec == BuildInit /\ [][BuildNext]_vars

===========================================================================
